---------------------------- MODULE Spec2Model ----------------------------
(***************************************************************************)
(* crux-cache: the two download paths of the repository.                   *)
(*                                                                         *)
(*   web : StreamingDownloader (docs/download.js) driven by the            *)
(*         UIController (ui.js), one downloader for the dataset "global".  *)
(*   cli : download.sh.                                                    *)
(*   ui  : UIController.loadAllManifests (ui.js) over the downloaders of   *)
(*         all datasets.                                                   *)
(*   py  : the rank filter of the Python client's get_dataset().           *)
(*                                                                         *)
(* A behaviour runs one of these (variable entry, fixed by Init) against   *)
(* a static server whose manifest is fixed by Init.                        *)
(*                                                                         *)
(* Text is a sequence of one-character strings.  "h" stands for the whole  *)
(* header text origin,rank; it is a byte like any other for the merge.     *)
(* Bytes and characters coincide (the data is ASCII).                      *)
(*                                                                         *)
(* JavaScript scheduling: an action is the code that runs between two      *)
(* awaits.  A continuation whose promise is already settled runs as a      *)
(* microtask, before any other task (a click, another call) can run;       *)
(* MicrotaskPending says so and disables the external operations.          *)
(* onProgress is the caller's callback: it runs inside the step that calls *)
(* it and may itself call cancelDownload() (input cb of those steps).      *)
(***************************************************************************)
EXTENDS Integers, Sequences, FiniteSets, TLC

\* ------------------------------------------------------------------ bounds
MaxChunks == 3   \* chunks listed by the server's manifest, all months together
MaxBytes == 4    \* bytes the server delivers to one download
MaxRows == 3     \* rows of the dataset the Python client iterates over

\* ------------------------------------------------------------------- text
NL == "\n"
Header == <<"h">>
Months == {"202509", "202510"}
NoMonth == "null"

VARIABLES
  entry,            \* "web", "cli", "ui" or "py": the path this behaviour runs
  serverManifest,   \* the dataset's manifest.json on the server
  \* ---- StreamingDownloader (download.js)
  manifest,         \* this.manifest
  isDownloading,    \* this.isDownloading
  abortController,  \* this.abortController
  loadPc,           \* loadManifest(): "idle" or "fetch" (awaiting the manifest)
  pc,               \* downloadMonth(): "idle", "fetch", "read" or "blob"
  chunks,           \* streamDownload: monthData.chunks of the running call
  i,                \* streamDownload: loop index
  bytesDownloaded,  \* streamDownload: bytesDownloaded
  buffer,           \* streamDownload: buffer (the incomplete line)
  body,             \* response.body of the chunk being read: "none", "open", "closed"
  stream,           \* the merge ReadableStream: state, queue, stored error
  fetchLog,         \* chunk requests sent to the network by the running call
  bodiesRead,       \* chunk bodies the running call has read to their end
  received,         \* text of each chunk as delivered to the live stream
  lastNote,         \* the last object passed to onProgress by the running call
  nTerminal,        \* 'complete' notifications passed to onProgress by the call
  cancelObserved,   \* the running call has seen the abort (line 142, or AbortError)
  thrown,           \* the error start() has thrown in the running call, or "none"
  result,           \* outcome of the latest accepted downloadMonth() call
  blob,             \* the file handed to the browser by that call (a.click())
  callError,        \* error thrown by the latest downloadMonth() before it started
  \* ---- UIController (ui.js)
  progressText,     \* elements.progressText.textContent
  uiPc,             \* loadAllManifests(): "idle", "loading" or "loaded"
  loadState,        \* per dataset, its loadManifest() call: "idle", "fetch",
                    \* "json" (awaiting response.json()), "ok" or "failed"
  dlManifest,       \* per dataset, this.manifest of downloaders[id]
  uiManifests,      \* per dataset, this.manifests[id] of the UIController
  loadCall,         \* the latest loadManifest(dataset) call made after the
                    \* initial load: downloader, argument, state, value returned
  \* ---- Python client (crux_cache)
  pyRows,           \* the (origin, rank) rows of the dataset, in file order
  pyPos,            \* per iterator, the rows of the dataset it has consumed
  pyOut,            \* per iterator, the rows it has yielded, in order
  \* ---- download.sh
  cliPc,            \* "start", "manifest" (curl running), "chunk" (curl running), "exit"
  argDataset,       \* $1 as given on the command line ("": not given)
  DATASET,          \* $DATASET
  REQUESTED_MONTH,  \* $REQUESTED_MONTH
  MANIFEST,         \* $MANIFEST: the lines curl printed
  TARGET_MONTH,     \* $TARGET_MONTH
  CHUNKS,           \* $CHUNKS: the chunk file names, in order
  CHUNK_NUM,        \* $CHUNK_NUM
  files,            \* the working directory: <YYYYMM>.csv for each month
  printed,          \* the error and completion messages echoed so far
  exitCode,         \* the exit status, -1 while the script runs
  cliRequests,      \* the URLs curl has been run on, in order
  cliReceived,      \* status and body of each chunk curl fetched with exit 0
  cliFetchFailed    \* a chunk fetch failed: network failure or HTTP status 404

webVars == <<manifest, isDownloading, abortController, loadPc, pc, chunks, i,
             bytesDownloaded, buffer, body, stream, fetchLog, bodiesRead,
             received, lastNote, nTerminal, cancelObserved, thrown, result,
             blob, callError, progressText>>

cliVars == <<cliPc, argDataset, DATASET, REQUESTED_MONTH, MANIFEST, TARGET_MONTH, CHUNKS,
             CHUNK_NUM, files, printed, exitCode, cliRequests, cliReceived,
             cliFetchFailed>>

uiVars == <<uiPc, loadState, dlManifest, uiManifests, loadCall>>

pyVars == <<pyRows, pyPos, pyOut>>

vars == <<entry, serverManifest, uiVars, pyVars, webVars, cliVars>>

\* -------------------------------------------------------- the static server
\* A chunk file of the dataset: the k-th chunk of month m.
ChunkFile(m, k) == [month |-> m, part |-> k]

\* The manifest that lists n[m] chunks for month m (0: the month is absent).
\* summary.latest_month is the greatest month present, null when there is none.
ManifestOf(n) ==
  LET present == {m \in Months : n[m] > 0}
  IN  [ isNull |-> FALSE,
        latest_month |-> IF "202510" \in present THEN "202510"
                         ELSE IF "202509" \in present THEN "202509"
                         ELSE NoMonth,
        months |-> [m \in present |-> [k \in 1..n[m] |-> ChunkFile(m, k)]] ]

ChunkCounts ==
  {n \in [Months -> 0..MaxChunks] : n["202509"] + n["202510"] <= MaxChunks}

Manifests == {ManifestOf(n) : n \in ChunkCounts}

NullManifest == [isNull |-> TRUE, latest_month |-> NoMonth, months |-> <<>>]
NullController == [isNull |-> TRUE, aborted |-> FALSE]
NewAbortController == [isNull |-> FALSE, aborted |-> FALSE]

\* ------------------------------------------------------------ text helpers
RECURSIVE Split(_)
\* String.prototype.split('\n')
Split(s) ==
  IF s = <<>> THEN << <<>> >>
  ELSE LET rest == Split(Tail(s))
       IN  IF Head(s) = NL THEN << <<>> >> \o rest
           ELSE << <<Head(s)>> \o Head(rest) >> \o Tail(rest)

RECURSIVE EncodeLines(_)
\* for (const line of lines) controller.enqueue(encode(line + '\n'))
EncodeLines(lines) ==
  IF lines = <<>> THEN <<>>
  ELSE Head(lines) \o <<NL>> \o EncodeLines(Tail(lines))

\* lines.pop(): the array without its last element
Front(lines) == SubSeq(lines, 1, Len(lines) - 1)
Last(lines) == lines[Len(lines)]

RECURSIVE Concat(_)
Concat(ss) == IF ss = <<>> THEN <<>> ELSE Head(ss) \o Concat(Tail(ss))

\* ------------------------------------------------- StreamingDownloader, UI
NoNote == [type |-> "none", chunkIndex |-> 0, bytesDownloaded |-> 0]
NoResult == [status |-> "none", error |-> "none"]
NoStream == [state |-> "none", queue |-> <<>>, error |-> "none"]

\* UIController.updateProgress: the text shown for a notification
UpdateProgress(type) ==
  IF type = "chunk" THEN "Downloading chunk"
  ELSE IF type = "progress" THEN "MB of MB"
  ELSE IF type = "complete" THEN "Finalizing download..."
  ELSE progressText

\* UIController.handleDownloadError
HandleDownloadError(error) ==
  IF error = "AbortError" THEN "Download cancelled" ELSE "Download failed"

\* A settled promise's continuation is queued: no other task runs before it.
MicrotaskPending ==
  \/ pc = "read" /\ body = "closed"
  \/ pc \in {"fetch", "read"} /\ abortController.aborted

\* The locals of the running streamDownload call, as the loop head reads them.
Locals ==
  [chunks |-> chunks, queue |-> stream.queue, bytes |-> bytesDownloaded,
   nTerminal |-> nTerminal, ac |-> abortController, fetchLog |-> fetchLog,
   note |-> lastNote, seen |-> cancelObserved]

\* The locals of a call that is starting (downloadMonth lines 115-116,
\* streamDownload lines 130-139).
FreshLocals(ch) ==
  [chunks |-> ch, queue |-> <<>>, bytes |-> 0, nTerminal |-> 0,
   ac |-> NewAbortController, fetchLog |-> <<>>, note |-> NoNote, seen |-> FALSE]

\* controller.close() after the loop, then onProgress({type: 'complete'}).
\* cb: the callback calls cancelDownload().
FinishStream(L, cb) ==
  /\ stream' = [state |-> "closed", queue |-> L.queue, error |-> "none"]
  /\ lastNote' = [type |-> "complete", chunkIndex |-> 0, bytesDownloaded |-> L.bytes]
  /\ progressText' = UpdateProgress("complete")
  /\ nTerminal' = L.nTerminal + 1
  /\ abortController' = [L.ac EXCEPT !.aborted = @ \/ cb]
  /\ cancelObserved' = L.seen
  /\ fetchLog' = L.fetchLog
  /\ pc' = "blob"

\* Faulty variant of CloseOnAbort: the abort branch also reports complete.
CloseOnAbort_Complete(L) ==
  /\ stream' = [state |-> "closed", queue |-> L.queue, error |-> "none"]
  /\ lastNote' = [type |-> "complete", chunkIndex |-> 0, bytesDownloaded |-> L.bytes]
  /\ progressText' = UpdateProgress("complete")
  /\ nTerminal' = L.nTerminal + 1
  /\ abortController' = L.ac
  /\ cancelObserved' = TRUE
  /\ fetchLog' = L.fetchLog
  /\ pc' = "blob"

\* The abort check at the head of an iteration found the signal aborted:
\* controller.close(); return.
CloseOnAbort(L) ==
  /\ stream' = [state |-> "closed", queue |-> L.queue, error |-> "none"]
  /\ lastNote' = L.note
  /\ progressText' = progressText
  /\ nTerminal' = L.nTerminal
  /\ abortController' = L.ac
  /\ cancelObserved' = TRUE
  /\ fetchLog' = L.fetchLog
  /\ pc' = "blob"

\* Faulty variant of FetchChunk: the chunks are requested last to first.
FetchChunk_Reversed(k, L, cb) ==
  /\ stream' = [state |-> "readable", queue |-> L.queue, error |-> "none"]
  /\ lastNote' = [type |-> "chunk", chunkIndex |-> k, bytesDownloaded |-> L.bytes]
  /\ progressText' = UpdateProgress("chunk")
  /\ nTerminal' = L.nTerminal
  /\ abortController' = [L.ac EXCEPT !.aborted = @ \/ cb]
  /\ cancelObserved' = L.seen
  /\ fetchLog' = IF cb THEN L.fetchLog
                 ELSE Append(L.fetchLog, L.chunks[Len(L.chunks) - k])
  /\ pc' = "fetch"

\* onProgress({type: 'chunk'}) and fetch(chunkUrl, {signal}) for chunk k.
\* A fetch whose signal is already aborted sends nothing and rejects.
FetchChunk(k, L, cb) ==
  /\ stream' = [state |-> "readable", queue |-> L.queue, error |-> "none"]
  /\ lastNote' = [type |-> "chunk", chunkIndex |-> k, bytesDownloaded |-> L.bytes]
  /\ progressText' = UpdateProgress("chunk")
  /\ nTerminal' = L.nTerminal
  /\ abortController' = [L.ac EXCEPT !.aborted = @ \/ cb]
  /\ cancelObserved' = L.seen
  /\ fetchLog' = IF cb THEN L.fetchLog ELSE Append(L.fetchLog, L.chunks[k + 1])
  /\ pc' = "fetch"

\* One pass through the head of the for loop with i = k.
NextChunk(k, L, cb) ==
  /\ i' = k
  /\ chunks' = L.chunks
  /\ bytesDownloaded' = L.bytes
  /\ buffer' = <<>>
  /\ body' = "none"
  /\ IF k >= Len(L.chunks) THEN FinishStream(L, cb)
     ELSE IF L.ac.aborted THEN CloseOnAbort(L)
     ELSE FetchChunk(k, L, cb)

\* The chunk bodies the server can deliver in one read: one or two bytes.
\* "h" (the header text) occurs only at the start of a chunk file; total
\* delivery to one download is capped by MaxBytes.
Fragments(atStart, room) ==
  LET first == IF atStart THEN {"h", "a", NL} ELSE {"a", NL}
  IN  {f \in {<<c>> : c \in first} \cup {<<c, d>> : c \in first, d \in {"a", NL}} :
         Len(f) <= room}

\* Faulty variant of FailChunk: the catch block closes the stream instead of
\* erroring it.
FailChunk_Close(error) ==
  /\ stream' = [stream EXCEPT !.state = "closed"]
  /\ cancelObserved' = (cancelObserved \/ error = "AbortError")
  /\ thrown' = error
  /\ pc' = "blob"
  /\ buffer' = <<>>
  /\ body' = "none"
  /\ received' = <<>>
  /\ UNCHANGED <<manifest, isDownloading, abortController, loadPc, chunks, i,
                 bytesDownloaded, fetchLog, bodiesRead, lastNote, nTerminal,
                 result, blob, callError, progressText>>

\* Faulty variant of FailChunk: the catch block swallows the error and
\* fetches the chunk again.
FailChunk_Retry(error) ==
  /\ cancelObserved' = (cancelObserved \/ error = "AbortError")
  /\ thrown' = error
  /\ pc' = "fetch"
  /\ buffer' = <<>>
  /\ body' = "none"
  /\ fetchLog' = Append(fetchLog, chunks[i + 1])
  /\ abortController' = [abortController EXCEPT !.aborted = FALSE]
  /\ UNCHANGED <<manifest, isDownloading, loadPc, chunks, i, stream, received,
                 bytesDownloaded, bodiesRead, lastNote, nTerminal,
                 result, blob, callError, progressText>>

\* controller.error(error); throw error  (lines 202-205).  An errored stream
\* drops what was enqueued.
FailChunk(error) ==
  /\ stream' = [state |-> "errored", queue |-> <<>>, error |-> error]
  /\ cancelObserved' = (cancelObserved \/ error = "AbortError")
  /\ thrown' = error
  /\ pc' = "blob"
  /\ buffer' = <<>>
  /\ body' = "none"
  /\ received' = <<>>
  /\ UNCHANGED <<manifest, isDownloading, abortController, loadPc, chunks, i,
                 bytesDownloaded, fetchLog, bodiesRead, lastNote, nTerminal,
                 result, blob, callError, progressText>>

\* Faulty variant of ProcessLines: the carry-over is not prefixed to the
\* decoded text.
ProcessLines_NoCarry(buf, value) ==
  LET lines == Split(value)
  IN  [buffer |-> Last(lines), enqueue |-> EncodeLines(Front(lines))]

\* Faulty variant of ProcessLines: lines equal to the header text are taken
\* for repeated headers and dropped.
ProcessLines_DropHeader(buf, value) ==
  LET lines == Split(buf \o value)
  IN  [buffer |-> Last(lines),
       enqueue |-> EncodeLines(SelectSeq(Front(lines), LAMBDA l : l # Header))]

\* The buffer after a read, and what the read enqueues (lines 177-186).
ProcessLines(buf, value) ==
  LET lines == Split(buf \o value)
  IN  [buffer |-> Last(lines), enqueue |-> EncodeLines(Front(lines))]

\* What the end of a chunk enqueues (lines 197-200).
FlushBuffer(buf) == IF buf # <<>> THEN buf \o <<NL>> ELSE <<>>

NoBlob == [made |-> FALSE, content |-> <<>>]

\* getLatestMonth(): null without a manifest, else
\* manifest.months[summary.latest_month] (undefined when the key is absent).
GetLatestMonth ==
  IF manifest.isNull THEN [defined |-> FALSE, chunks |-> <<>>]
  ELSE IF manifest.latest_month \in DOMAIN manifest.months
  THEN [defined |-> TRUE, chunks |-> manifest.months[manifest.latest_month]]
  ELSE [defined |-> FALSE, chunks |-> <<>>]

\* ---------------------------------------------------------------- actions
\* UIController.init -> loadAllManifests -> loadManifest(): the fetch is sent.
LoadManifest ==
  /\ entry = "web"
  /\ loadPc = "idle"
  /\ manifest.isNull
  /\ ~MicrotaskPending
  /\ loadPc' = "fetch"
  /\ UNCHANGED <<cliVars, entry, serverManifest, uiVars, pyVars, manifest, isDownloading, abortController,
                 pc, chunks, i, bytesDownloaded, buffer, body, stream, fetchLog,
                 bodiesRead, received, lastNote, nTerminal, cancelObserved, thrown,
                 result, blob, callError, progressText>>

\* loadManifest() after its awaits: the manifest is stored, or the call throws.
LoadManifestDone(ok) ==
  /\ entry = "web"
  /\ loadPc = "fetch"
  /\ ~MicrotaskPending
  /\ loadPc' = "idle"
  /\ manifest' = IF ok THEN serverManifest ELSE manifest
  /\ UNCHANGED <<cliVars, entry, serverManifest, uiVars, pyVars, isDownloading, abortController,
                 pc, chunks, i, bytesDownloaded, buffer, body, stream, fetchLog,
                 bodiesRead, received, lastNote, nTerminal, cancelObserved, thrown,
                 result, blob, callError, progressText>>

\* Faulty variant of RejectCall: the flags are set before the arguments are
\* checked.
RejectCall_AfterFlags(error) ==
  /\ callError' = error
  /\ isDownloading' = TRUE
  /\ abortController' = NewAbortController
  /\ UNCHANGED <<manifest, loadPc, pc,
                 chunks, i, bytesDownloaded, buffer, body, stream,
                 fetchLog, bodiesRead, received, lastNote, nTerminal,
                 cancelObserved, thrown, result, blob, progressText>>

\* Faulty variant of RejectCall: the checks sit inside the try block, so the
\* finally block resets the flags of the download that is running.
RejectCall_Finally(error) ==
  /\ callError' = error
  /\ isDownloading' = FALSE
  /\ abortController' = NullController
  /\ UNCHANGED <<manifest, loadPc, pc,
                 chunks, i, bytesDownloaded, buffer, body, stream,
                 fetchLog, bodiesRead, received, lastNote, nTerminal,
                 cancelObserved, thrown, result, blob, progressText>>

\* downloadMonth() throws before it starts anything (lines 106-113).
RejectCall(error) ==
  /\ callError' = error
  /\ UNCHANGED <<manifest, isDownloading, abortController, loadPc, pc,
                 chunks, i, bytesDownloaded, buffer, body, stream,
                 fetchLog, bodiesRead, received, lastNote, nTerminal,
                 cancelObserved, thrown, result, blob, progressText>>

\* downloadMonth(yyyymm, onProgress) up to its first await.
DownloadMonth(yyyymm, cb) ==
  /\ entry = "web"
  /\ ~MicrotaskPending
  /\ IF isDownloading THEN RejectCall("Download already in progress")
     ELSE IF manifest.isNull THEN RejectCall("TypeError")
     ELSE IF yyyymm \notin DOMAIN manifest.months
     THEN RejectCall("Month not found in manifest")
     ELSE /\ callError' = "none"
          /\ isDownloading' = TRUE
          /\ result' = [status |-> "pending", error |-> "none"]
          /\ blob' = NoBlob
          /\ bodiesRead' = 0
          /\ received' = <<>>
          /\ thrown' = "none"
          /\ NextChunk(0, FreshLocals(manifest.months[yyyymm]), cb)
          /\ UNCHANGED <<manifest, loadPc>>
  /\ UNCHANGED <<entry, serverManifest, uiVars, pyVars, cliVars>>

\* Faulty variant of CancelDownload: without the null check, a cancellation
\* made on an idle downloader is remembered.
CancelDownload_Sticky ==
  /\ entry = "web"
  /\ ~MicrotaskPending
  /\ abortController' = [abortController EXCEPT !.aborted = TRUE]
  /\ UNCHANGED <<cliVars, entry, serverManifest, uiVars, pyVars, manifest, isDownloading, loadPc, pc,
                 chunks, i, bytesDownloaded, buffer, body, stream, fetchLog,
                 bodiesRead, received, lastNote, nTerminal, cancelObserved, thrown,
                 result, blob, callError, progressText>>

\* cancelDownload(), called from outside the download's own callbacks.
CancelDownload ==
  /\ entry = "web"
  /\ ~MicrotaskPending
  /\ abortController' = IF abortController.isNull THEN abortController
                         ELSE [abortController EXCEPT !.aborted = TRUE]
  /\ UNCHANGED <<cliVars, entry, serverManifest, uiVars, pyVars, manifest, isDownloading, loadPc, pc,
                 chunks, i, bytesDownloaded, buffer, body, stream, fetchLog,
                 bodiesRead, received, lastNote, nTerminal, cancelObserved, thrown,
                 result, blob, callError, progressText>>

\* await fetch(chunkUrl) settles with a response (lines 159-169).
FetchResponse(ok) ==
  /\ entry = "web"
  /\ pc = "fetch"
  /\ ~abortController.aborted
  /\ IF ok
     THEN /\ pc' = "read"
          /\ body' = "open"
          /\ buffer' = <<>>
          /\ received' = Append(received, <<>>)
          /\ UNCHANGED <<manifest, isDownloading, abortController, loadPc, chunks,
                         i, bytesDownloaded, stream, fetchLog, bodiesRead, lastNote,
                         nTerminal, cancelObserved, thrown, result, blob, callError,
                         progressText>>
     ELSE FailChunk("HttpError")
  /\ UNCHANGED <<entry, serverManifest, uiVars, pyVars, cliVars>>

\* await fetch(chunkUrl) rejects: the network failed.
FetchNetworkError ==
  /\ entry = "web"
  /\ pc = "fetch"
  /\ ~abortController.aborted
  /\ FailChunk("NetworkError")
  /\ UNCHANGED <<entry, serverManifest, uiVars, pyVars, cliVars>>

\* await fetch(chunkUrl) rejects because the signal is aborted.
FetchAborted ==
  /\ entry = "web"
  /\ pc = "fetch"
  /\ abortController.aborted
  /\ FailChunk("AbortError")
  /\ UNCHANGED <<entry, serverManifest, uiVars, pyVars, cliVars>>

\* await reader.read() returns {done: false, value} (lines 172-195).
\* closes: the body ended with this value; cb: onProgress calls cancelDownload().
ReadData(value, closes, cb) ==
  /\ LET p == ProcessLines(buffer, value)
     IN  /\ bytesDownloaded' = bytesDownloaded + Len(value)
         /\ buffer' = p.buffer
         /\ stream' = [stream EXCEPT !.queue = @ \o p.enqueue]
         /\ lastNote' = [type |-> "progress", chunkIndex |-> i,
                         bytesDownloaded |-> bytesDownloaded + Len(value)]
         /\ progressText' = UpdateProgress("progress")
  /\ received' = [received EXCEPT ![Len(received)] = @ \o value]
  /\ body' = IF closes THEN "closed" ELSE "open"
  /\ abortController' = [abortController EXCEPT !.aborted = cb]
  /\ UNCHANGED <<cliVars, entry, serverManifest, uiVars, pyVars, manifest, isDownloading, loadPc, pc,
                 chunks, i, fetchLog, bodiesRead, nTerminal, cancelObserved, thrown,
                 result, blob, callError>>

\* The network delivers the next bytes of the chunk to the pending read.
Read ==
  /\ entry = "web"
  /\ pc = "read"
  /\ body = "open"
  /\ ~abortController.aborted
  /\ \E closes \in BOOLEAN, cb \in BOOLEAN :
       \E value \in Fragments(received[Len(received)] = <<>>,
                              MaxBytes - bytesDownloaded) :
          ReadData(value, closes, cb)

\* await reader.read() returns {done: true}: the rest of the iteration
\* (lines 174, 197-200) and the head of the next one.
ReadDone(cb) ==
  /\ entry = "web"
  /\ pc = "read"
  /\ body = "closed" \/ ~abortController.aborted
  /\ bodiesRead' = bodiesRead + 1
  /\ NextChunk(i + 1,
               [Locals EXCEPT !.queue = @ \o FlushBuffer(buffer)], cb)
  /\ UNCHANGED <<cliVars, entry, serverManifest, uiVars, pyVars, manifest, isDownloading, loadPc,
                 received, thrown, result, blob, callError>>

\* await reader.read() rejects: the connection broke inside the body.
ReadError ==
  /\ entry = "web"
  /\ pc = "read"
  /\ body = "open"
  /\ ~abortController.aborted
  /\ FailChunk("ReadError")
  /\ UNCHANGED <<entry, serverManifest, uiVars, pyVars, cliVars>>

\* await reader.read() rejects because the abort errored the open body.
ReadAborted ==
  /\ entry = "web"
  /\ pc = "read"
  /\ body = "open"
  /\ abortController.aborted
  /\ FailChunk("AbortError")
  /\ UNCHANGED <<entry, serverManifest, uiVars, pyVars, cliVars>>

\* Faulty variant of BlobSettle: the flags are reset after streamDownload
\* returns instead of in a finally block, so a failed download leaves them set.
BlobSettle_NoFinally ==
  /\ entry = "web"
  /\ pc = "blob"
  /\ IF stream.state = "errored"
     THEN /\ result' = [status |-> "rejected", error |-> stream.error]
          /\ blob' = blob
          /\ progressText' = HandleDownloadError(stream.error)
          /\ UNCHANGED <<isDownloading, abortController>>
     ELSE /\ result' = [status |-> "resolved", error |-> "none"]
          /\ blob' = [made |-> TRUE, content |-> stream.queue]
          /\ progressText' = "Download complete!"
          /\ isDownloading' = FALSE
          /\ abortController' = NullController
  /\ pc' = "idle"
  /\ stream' = NoStream
  /\ received' = <<>>
  /\ UNCHANGED <<cliVars, entry, serverManifest, uiVars, pyVars, manifest, loadPc, chunks, i,
                 bytesDownloaded, buffer, body, fetchLog, bodiesRead, lastNote,
                 nTerminal, cancelObserved, thrown, callError>>

\* await new Response(stream).blob() settles; the rest of streamDownload
\* (lines 218-226), downloadMonth's finally, and the UI's continuation.
BlobSettle ==
  /\ entry = "web"
  /\ pc = "blob"
  /\ IF stream.state = "errored"
     THEN /\ result' = [status |-> "rejected", error |-> stream.error]
          /\ blob' = blob
          /\ progressText' = HandleDownloadError(stream.error)
     ELSE /\ result' = [status |-> "resolved", error |-> "none"]
          /\ blob' = [made |-> TRUE, content |-> stream.queue]
          /\ progressText' = "Download complete!"
  /\ isDownloading' = FALSE
  /\ abortController' = NullController
  /\ pc' = "idle"
  /\ stream' = NoStream
  /\ received' = <<>>
  /\ UNCHANGED <<cliVars, entry, serverManifest, uiVars, pyVars, manifest, loadPc, chunks, i,
                 bytesDownloaded, buffer, body, fetchLog, bodiesRead, lastNote,
                 nTerminal, cancelObserved, thrown, callError>>


\* ------------------------------------------------------------ download.sh
\* manifest.json as text, one key per line.  Only the lines the script's
\* greps can tell apart are kept:
\*   "latest_month": "<val>"   kind "latest_month"  (null when val = NoMonth)
\*   "<val>": {                kind "month"
\*   "filename": "<val>"       kind "filename"
\* The summary object comes before or after the months object.
MonthLines(m, mo) ==
  IF mo \in DOMAIN m.months
  THEN <<[kind |-> "month", val |-> mo]>> \o
       [k \in 1..Len(m.months[mo]) |-> [kind |-> "filename", val |-> m.months[mo][k]]]
  ELSE <<>>

ManifestText(m, summaryFirst) ==
  LET summary == <<[kind |-> "latest_month", val |-> m.latest_month]>>
      months == MonthLines(m, "202509") \o MonthLines(m, "202510")
  IN  IF summaryFirst THEN summary \o months ELSE months \o summary

\* The body GitHub serves with status 404.
ErrorPage == <<"4", "0", "4">>
ErrorPageText == <<[kind |-> "other", val |-> "404: Not Found"]>>

\* The line contains "<month>" (the month between double quotes).
HasQuoted(line, month) ==
  /\ line.kind \in {"latest_month", "month"}
  /\ line.val = month

\* grep -q "\"$TARGET_MONTH\""
GrepQ(text, month) == \E k \in 1..Len(text) : HasQuoted(text[k], month)

\* Faulty variant of GrepLatest: the first month key of the manifest is taken
\* instead of the declared latest month.
GrepLatest_FirstKey(text) ==
  LET hits == SelectSeq(text, LAMBDA l : l.kind = "month")
  IN  IF hits = <<>> THEN "" ELSE hits[1].val

\* grep -o '"latest_month": *"[^"]*"' | cut -d'"' -f4
GrepLatest(text) ==
  LET hits == SelectSeq(text, LAMBDA l : l.kind = "latest_month" /\ l.val # NoMonth)
  IN  IF hits = <<>> THEN "" ELSE hits[1].val

\* grep -A 1000 "\"$TARGET_MONTH\"": every matching line and what follows it.
GrepA(text, month) ==
  IF GrepQ(text, month)
  THEN SubSeq(text, CHOOSE k \in 1..Len(text) :
                      /\ HasQuoted(text[k], month)
                      /\ \A j \in 1..(k - 1) : ~HasQuoted(text[j], month),
              Len(text))
  ELSE <<>>

\* grep -o '"filename": *"[^"]*"' | cut -d'"' -f4
GrepFilenames(text) ==
  LET hits == SelectSeq(text, LAMBDA l : l.kind = "filename")
  IN  [k \in 1..Len(hits) |-> hits[k].val]

\* Faulty variant of IsYYYYMM: the pattern has no anchors, so an argument
\* that merely contains digits passes.
IsYYYYMM_Unanchored(arg) == arg \in {"202509", "202510", "202511", "2025-10"}

\* [[ "$REQUESTED_MONTH" =~ ^[0-9]{6}$ ]] on the month arguments tried
IsYYYYMM(arg) == arg \in {"202509", "202510", "202511"}

\* tr '[:upper:]' '[:lower:]' on the dataset arguments tried
ToLower(arg) == IF arg = "Global" THEN "global" ELSE arg

CliDatasetArgs == {"", "Global", "xx"}
CliMonthArgs == {"", "202509", "202510", "202511", "2025-10"}
\* Chunk bodies the server can deliver to curl.
CliBodies == {<<"h", NL>>, <<"a">>}

NoFile == [exists |-> FALSE, content |-> <<>>]
OldFile == [exists |-> TRUE, content |-> <<"o", "l", "d">>]

ManifestUrl(dataset) == [kind |-> "manifest", dataset |-> dataset, file |-> "manifest.json"]
ChunkUrl(dataset, file) == [kind |-> "chunk", dataset |-> dataset, file |-> file]

\* echo <message>; exit <code>
CliExit(message, code) ==
  /\ printed' = IF message = "" THEN printed ELSE Append(printed, message)
  /\ exitCode' = code
  /\ cliPc' = "exit"

\* Lines 17-56: arguments, validation, and the start of the manifest curl.
CliRun(arg1, arg2) ==
  /\ entry = "cli"
  /\ cliPc = "start"
  /\ argDataset' = arg1
  /\ LET dataset == IF arg1 = "" THEN "global" ELSE arg1
     IN  IF dataset = ""
         THEN /\ CliExit("Usage", 1)
              /\ UNCHANGED <<DATASET, REQUESTED_MONTH, cliRequests>>
         ELSE IF arg2 # "" /\ ~IsYYYYMM(arg2)
         THEN /\ CliExit("Error: Month must be in YYYYMM format", 1)
              /\ DATASET' = dataset
              /\ REQUESTED_MONTH' = arg2
              /\ UNCHANGED cliRequests
         ELSE /\ DATASET' = ToLower(dataset)
              /\ REQUESTED_MONTH' = arg2
              /\ cliRequests' = Append(cliRequests, ManifestUrl(ToLower(dataset)))
              /\ cliPc' = "manifest"
              /\ UNCHANGED <<printed, exitCode>>
  /\ UNCHANGED <<MANIFEST, TARGET_MONTH, CHUNKS, CHUNK_NUM, files, cliReceived,
                 cliFetchFailed>>
  /\ UNCHANGED <<entry, serverManifest, uiVars, pyVars, webVars>>

\* Lines 104-122 for the first chunk: the old output file is removed, the
\* redirection >> creates it, and curl starts on the first chunk.
CliStartChunks(target, list) ==
  /\ files' = [files EXCEPT ![target] = [exists |-> TRUE, content |-> <<>>]]
  /\ CHUNK_NUM' = 1
  /\ cliRequests' = Append(cliRequests, ChunkUrl(DATASET, list[1]))
  /\ cliPc' = "chunk"
  /\ UNCHANGED <<printed, exitCode>>

\* Lines 65-101 once $MANIFEST holds text: the month, then the chunk list.
CliResolve(text) ==
  LET target == IF REQUESTED_MONTH # "" THEN REQUESTED_MONTH ELSE GrepLatest(text)
      list == GrepFilenames(GrepA(text, target))
  IN  /\ MANIFEST' = text
      /\ IF REQUESTED_MONTH # "" /\ ~GrepQ(text, target)
         THEN /\ CliExit("Error: Month not found in dataset", 1)
              /\ TARGET_MONTH' = target
              /\ UNCHANGED <<CHUNKS, CHUNK_NUM, files, cliRequests>>
         ELSE IF REQUESTED_MONTH = "" /\ target = ""
         THEN /\ CliExit("Error: No data available for dataset", 1)
              /\ TARGET_MONTH' = target
              /\ UNCHANGED <<CHUNKS, CHUNK_NUM, files, cliRequests>>
         ELSE IF list = <<>>
         THEN /\ CliExit("Error: No chunks found for month", 1)
              /\ TARGET_MONTH' = target
              /\ CHUNKS' = list
              /\ UNCHANGED <<CHUNK_NUM, files, cliRequests>>
         ELSE /\ TARGET_MONTH' = target
              /\ CHUNKS' = list
              /\ CliStartChunks(target, list)

\* Lines 56-63: the manifest curl ends.  status "fail": curl exits non-zero
\* (7 here) and set -e ends the script at the assignment; "404": curl -sSL
\* exits 0 and prints the error page; "empty": exit 0 and no output.
CliManifestFetched(status, summaryFirst) ==
  /\ entry = "cli"
  /\ cliPc = "manifest"
  /\ status = "200" => DATASET = "global"
  /\ status = "404" => DATASET # "global"
  /\ IF status = "fail"
     THEN /\ CliExit("", 7)
          /\ UNCHANGED <<MANIFEST, TARGET_MONTH, CHUNKS, CHUNK_NUM, files, cliRequests>>
     ELSE IF status = "empty"
     THEN /\ CliExit("Error: Dataset not found", 1)
          /\ UNCHANGED <<MANIFEST, TARGET_MONTH, CHUNKS, CHUNK_NUM, files, cliRequests>>
     ELSE CliResolve(IF status = "200"
                     THEN ManifestText(serverManifest, summaryFirst)
                     ELSE ErrorPageText)
  /\ UNCHANGED <<argDataset, DATASET, REQUESTED_MONTH, cliReceived, cliFetchFailed>>
  /\ UNCHANGED <<entry, serverManifest, uiVars, pyVars, webVars>>

\* Lines 116-144: one chunk curl ends.  curl -sSL exits 0 on any HTTP status
\* and has appended the body it received; it exits non-zero on a network
\* failure.  Then the next curl starts, or the script ends.
CliChunkFetched(status, bytes) ==
  /\ entry = "cli"
  /\ cliPc = "chunk"
  /\ status = "404" => bytes = ErrorPage
  /\ status = "200" => bytes \in CliBodies
  /\ cliFetchFailed' = (cliFetchFailed \/ status # "200")
  /\ IF status = "fail"
     THEN /\ CliExit("Error: Failed to download", 1)
          /\ files' = [files EXCEPT ![TARGET_MONTH] = NoFile]
          /\ UNCHANGED <<CHUNK_NUM, cliRequests, cliReceived>>
     ELSE /\ files' = [files EXCEPT ![TARGET_MONTH].content = @ \o bytes]
          /\ cliReceived' = Append(cliReceived,
                               [file |-> CHUNKS[CHUNK_NUM], status |-> status, body |-> bytes])
          /\ IF CHUNK_NUM < Len(CHUNKS)
             THEN /\ CHUNK_NUM' = CHUNK_NUM + 1
                  /\ cliRequests' = Append(cliRequests,
                                       ChunkUrl(DATASET, CHUNKS[CHUNK_NUM + 1]))
                  /\ UNCHANGED <<cliPc, printed, exitCode>>
             ELSE /\ CliExit("Download complete!", 0)
                  /\ UNCHANGED <<CHUNK_NUM, cliRequests>>
  /\ UNCHANGED <<argDataset, DATASET, REQUESTED_MONTH, MANIFEST, TARGET_MONTH, CHUNKS>>
  /\ UNCHANGED <<entry, serverManifest, uiVars, pyVars, webVars>>

\* ------------------------------------------------- UIController (ui.js)
Datasets == {"global", "us", "de"}

\* The values of this.manifests[id] and of a downloader's this.manifest.  A
\* manifest is identified by the dataset whose manifest.json it is.
UnsetEntry == [set |-> FALSE, isNull |-> TRUE, dataset |-> ""]
NullEntry == [set |-> TRUE, isNull |-> TRUE, dataset |-> ""]
ManifestAt(d) == [set |-> TRUE, isNull |-> FALSE, dataset |-> d]

NoLoadCall == [on |-> "", arg |-> "", state |-> "none", value |-> UnsetEntry]

\* const targetDataset = dataset || this.dataset  (the argument "" stands
\* for a call without argument), on the downloader of dataset d.
TargetDataset(d, dataset) == IF dataset = "" THEN d ELSE dataset

\* Faulty variant of StoredManifest: the fetched manifest is stored whatever
\* dataset it belongs to.
StoredManifest_Always(d, dataset) ==
  [dlManifest EXCEPT ![d] = ManifestAt(TargetDataset(d, dataset))]

\* if (!dataset || dataset === this.dataset) this.manifest = manifest
\* (download.js:78-81): the downloaders' manifests after the load.
StoredManifest(d, dataset) ==
  IF dataset = "" \/ dataset = d
  THEN [dlManifest EXCEPT ![d] = ManifestAt(TargetDataset(d, dataset))]
  ELSE dlManifest

\* Promise.all settles when every callback of the map has.
AllSettled(ls) == \A d \in Datasets : ls[d] \in {"ok", "failed"}

\* Faulty variant of LoadFailed: the callback has no try/catch, so the first
\* failed load rejects Promise.all and ends loadAllManifests.
LoadFailed_NoCatch(d) ==
  /\ loadState' = [loadState EXCEPT ![d] = "failed"]
  /\ uiManifests' = uiManifests
  /\ dlManifest' = dlManifest
  /\ uiPc' = "loaded"

\* loadManifest() of dataset d throws; the catch of the map callback stores
\* null (ui.js loadAllManifests).
LoadFailed(d) ==
  /\ loadState' = [loadState EXCEPT ![d] = "failed"]
  /\ uiManifests' = [uiManifests EXCEPT ![d] = NullEntry]
  /\ dlManifest' = dlManifest
  /\ uiPc' = IF AllSettled(loadState') THEN "loaded" ELSE uiPc

\* loadAllManifests(): the map runs every callback up to its first await, so
\* the manifest fetch of every dataset is sent.
UiLoadAll ==
  /\ entry = "ui"
  /\ uiPc = "idle"
  /\ uiPc' = "loading"
  /\ loadState' = [d \in Datasets |-> "fetch"]
  /\ UNCHANGED <<dlManifest, uiManifests>>
  /\ UNCHANGED <<loadCall, entry, serverManifest, webVars, cliVars, pyVars>>

\* await fetch(manifestUrl) of dataset d settles (download.js:70-74).
UiFetchSettle(d, ok) ==
  /\ entry = "ui"
  /\ loadState[d] = "fetch"
  /\ IF ok
     THEN /\ loadState' = [loadState EXCEPT ![d] = "json"]
          /\ UNCHANGED <<uiPc, dlManifest, uiManifests>>
     ELSE LoadFailed(d)
  /\ UNCHANGED <<loadCall, entry, serverManifest, webVars, cliVars, pyVars>>

\* await response.json() of dataset d settles (download.js:76-83), then the
\* callback of the map stores the manifest.
UiJsonSettle(d, ok) ==
  /\ entry = "ui"
  /\ loadState[d] = "json"
  /\ IF ok
     THEN /\ loadState' = [loadState EXCEPT ![d] = "ok"]
          /\ dlManifest' = StoredManifest(d, "")
          /\ uiManifests' = [uiManifests EXCEPT ![d] = ManifestAt(d)]
          /\ uiPc' = IF AllSettled(loadState') THEN "loaded" ELSE uiPc
     ELSE LoadFailed(d)
  /\ UNCHANGED <<loadCall, entry, serverManifest, webVars, cliVars, pyVars>>

\* loadManifest(dataset) is called on the downloader of dataset d, after the
\* initial load: the fetch is sent.
UiLoadManifest(d, dataset) ==
  /\ entry = "ui"
  /\ uiPc = "loaded"
  /\ loadCall.state \in {"none", "resolved", "rejected"}
  /\ loadCall' = [on |-> d, arg |-> dataset, state |-> "fetch", value |-> UnsetEntry]
  /\ UNCHANGED <<uiPc, loadState, dlManifest, uiManifests>>
  /\ UNCHANGED <<entry, serverManifest, webVars, cliVars, pyVars>>

\* await fetch(manifestUrl) of that call settles (download.js:70-74, 84-87).
UiCallFetchSettle(ok) ==
  /\ entry = "ui"
  /\ loadCall.state = "fetch"
  /\ loadCall' = [loadCall EXCEPT !.state = IF ok THEN "json" ELSE "rejected"]
  /\ UNCHANGED <<uiPc, loadState, dlManifest, uiManifests>>
  /\ UNCHANGED <<entry, serverManifest, webVars, cliVars, pyVars>>

\* await response.json() of that call settles (download.js:76-87).
UiCallJsonSettle(ok) ==
  /\ entry = "ui"
  /\ loadCall.state = "json"
  /\ IF ok
     THEN /\ dlManifest' = StoredManifest(loadCall.on, loadCall.arg)
          /\ loadCall' = [loadCall EXCEPT
                            !.state = "resolved",
                            !.value = ManifestAt(TargetDataset(loadCall.on, loadCall.arg))]
     ELSE /\ dlManifest' = dlManifest
          /\ loadCall' = [loadCall EXCEPT !.state = "rejected"]
  /\ UNCHANGED <<uiPc, loadState, uiManifests>>
  /\ UNCHANGED <<entry, serverManifest, webVars, cliVars, pyVars>>

\* ------------------------------------------ Python client: the rank filter
\* max_rank = None
NoMaxRank == 0
Ranks == {1000, 5000, 10000}
Origins == {"a", "b"}
Rows == [origin : Origins, rank : Ranks]

\* One iterator per max_rank value that get_dataset() is called with, all
\* over the same dataset and month.
MaxRankArgs == {NoMaxRank, 1000, 5000}

RowStreams == UNION {[1..n -> Rows] : n \in 0..MaxRows}

\* Faulty variant of KeepRow: the rank is compared with == instead of <=.
KeepRow_Equal(row, max_rank) ==
  max_rank = NoMaxRank \/ row.rank = max_rank

\* The filter's predicate: rank <= max_rank, every row when max_rank is unset.
KeepRow(row, max_rank) ==
  max_rank = NoMaxRank \/ row.rank <= max_rank

\* The iterator of get_dataset(..., max_rank) consumes the next row of the
\* dataset and yields it when the filter keeps it.
PyNext(max_rank) ==
  /\ entry = "py"
  /\ pyPos[max_rank] < Len(pyRows)
  /\ pyPos' = [pyPos EXCEPT ![max_rank] = @ + 1]
  /\ pyOut' = [pyOut EXCEPT ![max_rank] =
                 IF KeepRow(pyRows[pyPos[max_rank] + 1], max_rank)
                 THEN Append(@, pyRows[pyPos[max_rank] + 1]) ELSE @]
  /\ UNCHANGED pyRows
  /\ UNCHANGED <<entry, serverManifest, webVars, cliVars, uiVars>>

Init ==
  /\ entry \in {"web", "cli", "ui", "py"}
  /\ serverManifest \in IF entry \in {"web", "cli"} THEN Manifests
                         ELSE {ManifestOf([m \in Months |-> 0])}
  /\ manifest = NullManifest
  /\ isDownloading = FALSE
  /\ abortController = NullController
  /\ loadPc = "idle"
  /\ pc = "idle"
  /\ chunks = <<>>
  /\ i = 0
  /\ bytesDownloaded = 0
  /\ buffer = <<>>
  /\ body = "none"
  /\ stream = NoStream
  /\ fetchLog = <<>>
  /\ bodiesRead = 0
  /\ received = <<>>
  /\ lastNote = NoNote
  /\ nTerminal = 0
  /\ cancelObserved = FALSE
  /\ thrown = "none"
  /\ result = NoResult
  /\ blob = NoBlob
  /\ callError = "none"
  /\ progressText = ""
  /\ cliPc = "start"
  /\ argDataset = ""
  /\ DATASET = ""
  /\ REQUESTED_MONTH = ""
  /\ MANIFEST = <<>>
  /\ TARGET_MONTH = ""
  /\ CHUNKS = <<>>
  /\ CHUNK_NUM = 0
  /\ files \in IF entry = "cli"
               THEN {[m \in Months |-> NoFile], [m \in Months |-> OldFile]}
               ELSE {[m \in Months |-> NoFile]}
  /\ printed = <<>>
  /\ exitCode = -1
  /\ cliRequests = <<>>
  /\ cliReceived = <<>>
  /\ cliFetchFailed = FALSE
  /\ uiPc = "idle"
  /\ loadState = [d \in Datasets |-> "idle"]
  /\ dlManifest = [d \in Datasets |-> NullEntry]
  /\ uiManifests = [d \in Datasets |-> UnsetEntry]
  /\ loadCall = NoLoadCall
  /\ pyRows \in IF entry = "py" THEN RowStreams ELSE {<<>>}
  /\ pyPos = [m \in MaxRankArgs |-> 0]
  /\ pyOut = [m \in MaxRankArgs |-> <<>>]

Next ==
  \/ LoadManifest
  \/ \E ok \in BOOLEAN : LoadManifestDone(ok)
  \/ \E m \in Months, cb \in BOOLEAN : DownloadMonth(m, cb)
  \/ CancelDownload
  \/ \E ok \in BOOLEAN : FetchResponse(ok)
  \/ FetchNetworkError
  \/ FetchAborted
  \/ Read
  \/ \E cb \in BOOLEAN : ReadDone(cb)
  \/ ReadError
  \/ ReadAborted
  \/ BlobSettle
  \/ \E arg1 \in CliDatasetArgs, arg2 \in CliMonthArgs : CliRun(arg1, arg2)
  \/ \E status \in {"200", "404", "empty", "fail"}, summaryFirst \in BOOLEAN :
       CliManifestFetched(status, summaryFirst)
  \/ \E status \in {"200", "404", "fail"}, bytes \in CliBodies \cup {ErrorPage} :
       CliChunkFetched(status, bytes)
  \/ UiLoadAll
  \/ \E d \in Datasets, ok \in BOOLEAN : UiFetchSettle(d, ok)
  \/ \E d \in Datasets, ok \in BOOLEAN : UiJsonSettle(d, ok)
  \/ \E d \in Datasets, dataset \in Datasets \cup {""} : UiLoadManifest(d, dataset)
  \/ \E ok \in BOOLEAN : UiCallFetchSettle(ok)
  \/ \E ok \in BOOLEAN : UiCallJsonSettle(ok)
  \/ \E max_rank \in MaxRankArgs : PyNext(max_rank)

Spec == Init /\ [][Next]_vars

\* ================================================================= claims
\* The lines of a text: split at newlines, without the empty piece that
\* follows a final newline.
TextLines(s) ==
  LET parts == Split(s)
  IN  IF Last(parts) = <<>> THEN Front(parts) ELSE parts

\* The web merge ran to its end: every chunk was read and the stream closed
\* after the loop (the state in which the blob is being assembled).
MergeComplete ==
  /\ entry = "web"
  /\ pc = "blob"
  /\ stream.state = "closed"
  /\ nTerminal = 1

\* Some row is split across the boundary of two consecutive chunks.
RowSplitAcrossChunks ==
  \E k \in 1..(Len(received) - 1) :
     /\ received[k] # <<>>
     /\ Last(received[k]) # NL
     /\ received[k + 1] # <<>>
     /\ Head(received[k + 1]) # NL

\* C1: when the web merge of a month is complete and a row was split across
\* the boundary of two chunks, the lines of the merged output are the lines of
\* the concatenated chunk texts: the split row is one line, not two, and no
\* row is dropped.
C1_SplitRowIsOneLine ==
  (MergeComplete /\ RowSplitAcrossChunks)
     => TextLines(stream.queue) = TextLines(Concat(received))

\* The first chunk, and no other, starts with the header line; the header
\* text occurs nowhere else.
OnlyFirstChunkHasHeader ==
  /\ Len(received) >= 1
  /\ Len(received[1]) >= 2
  /\ SubSeq(received[1], 1, 2) = Header \o <<NL>>
  /\ \A k \in 2..Len(received) : received[k] = <<>> \/ Head(received[k]) # "h"

\* C2: when the web merge of a month whose first chunk alone starts with the
\* header is complete, the output's first line is the header, the header
\* occurs once, and the other lines are the chunks' non-header content in
\* chunk order.
C2_HeaderOnceThenContent ==
  (MergeComplete /\ OnlyFirstChunkHasHeader) =>
     LET out == TextLines(stream.queue)
     IN  /\ out # <<>>
         /\ out[1] = Header
         /\ Cardinality({k \in 1..Len(out) : out[k] = Header}) = 1
         /\ Tail(out) = Tail(TextLines(Concat(received)))

Settled == entry = "web" /\ result.status \in {"resolved", "rejected"}

\* C3: a downloadMonth() call that has seen the cancellation (at the check
\* between two chunks, or as the AbortError of a pending fetch or read) ends
\* rejected, hands no file to the browser, and the UI never shows
\* 'Download complete'.
C3_CancelledDownloadFails ==
  (entry = "web" /\ cancelObserved) =>
     /\ ~blob.made
     /\ progressText # "Download complete!"
     /\ Settled => result.status = "rejected"

FetchErrors == {"HttpError", "NetworkError", "ReadError"}

\* C4: when the fetch of a chunk fails (status not OK, network error, failed
\* body read), the merge stream is errored and holds nothing of what was
\* merged, no blob is built, no file is handed to the browser, and
\* downloadMonth() rejects with that error.
C4_FetchFailureRejects ==
  (entry = "web" /\ thrown \in FetchErrors) =>
     /\ ~blob.made
     /\ pc \in {"blob", "idle"}
     /\ pc = "blob" => stream.state = "errored" /\ stream.queue = <<>>
     /\ pc = "idle" => result = [status |-> "rejected", error |-> thrown]

\* A body read failed after part of the month had been merged, and the call
\* has settled.
C4_Witness ==
  /\ entry = "web"
  /\ thrown = "ReadError"
  /\ bodiesRead >= 1
  /\ bytesDownloaded >= 2
  /\ result.status = "rejected"

\* The chunk downloads the script has started, in order.
CliChunkRequests == SelectSeq(cliRequests, LAMBDA r : r.kind = "chunk")

\* The working directory as some run can find it.
InitialFiles == {[m \in Months |-> NoFile], [m \in Months |-> OldFile]}

\* C5: a CLI run in which a chunk fetch failed (network failure or HTTP
\* error status) ends with a diagnostic, a non-zero status and no output
\* file; and a run that exits 0 leaves an output file made of the bodies of
\* the target month's chunks, each fetched with success, and nothing else.
C5_CliChunkFailureLeavesNoFile ==
  (entry = "cli" /\ cliPc = "exit") =>
     /\ cliFetchFailed =>
          /\ exitCode # 0
          /\ printed # <<>>
          /\ ~files[TARGET_MONTH].exists
     /\ exitCode = 0 =>
          /\ \A k \in 1..Len(cliReceived) :
                /\ cliReceived[k].status = "200"
                /\ cliReceived[k].file.month = TARGET_MONTH
          /\ files[TARGET_MONTH].content =
                Concat([k \in 1..Len(cliReceived) |-> cliReceived[k].body])

\* C6: a CLI run that ends in the resolution stage (the manifest was
\* requested, no chunk was) has printed a diagnostic, exits non-zero, and
\* has neither created nor removed an output file.
C6_CliResolutionFailure ==
  (entry = "cli" /\ cliPc = "exit" /\ Len(cliRequests) = 1) =>
     /\ exitCode > 0
     /\ printed # <<>>
     /\ files \in InitialFiles

\* C7: chunk requests go out one at a time and in manifest order: the
\* requests sent are a prefix of the chunk list, each chunk is requested at
\* most once, a request goes out only when the body of the one before has
\* been read to its end (so at most one is in flight), and a download that
\* runs to its end has requested every chunk exactly once.
C7_SequentialInOrder ==
  /\ entry = "web" =>
       /\ Len(fetchLog) <= Len(chunks)
       /\ \A k \in 1..Len(fetchLog) : fetchLog[k] = chunks[k]
       /\ \A j, k \in 1..Len(fetchLog) : fetchLog[j] = fetchLog[k] => j = k
       /\ bodiesRead <= Len(fetchLog)
       /\ Len(fetchLog) <= bodiesRead + 1
       /\ nTerminal >= 1 => fetchLog = chunks /\ bodiesRead = Len(chunks)
  /\ entry = "cli" =>
       LET reqs == CliChunkRequests
           all == GrepFilenames(MANIFEST)
       IN  /\ Len(reqs) <= Len(CHUNKS)
           /\ \A k \in 1..Len(reqs) : reqs[k] = ChunkUrl(DATASET, CHUNKS[k])
           /\ \A j, k \in 1..Len(CHUNKS) : CHUNKS[j] = CHUNKS[k] => j = k
           /\ \E n \in 1..(Len(all) + 1) : CHUNKS = SubSeq(all, n, Len(all))
           /\ Len(cliReceived) <= Len(reqs)
           /\ cliPc = "chunk" => Len(reqs) = Len(cliReceived) + 1
           /\ exitCode = 0 => Len(reqs) = Len(CHUNKS) /\ Len(cliReceived) = Len(CHUNKS)

\* A web download of a three-chunk month has run to its end.
C7_Witness ==
  /\ entry = "web"
  /\ nTerminal = 1
  /\ Len(chunks) = 3
  /\ fetchLog = chunks
  /\ bytesDownloaded >= 2

\* The running download has failed or has seen its cancellation.
DownloadDead ==
  /\ entry = "web"
  /\ isDownloading
  /\ thrown # "none" \/ cancelObserved

\* C8: from the moment a download has failed or has seen its cancellation, no
\* step of that download sends a chunk request, enqueues a line, or passes a
\* notification to onProgress: it only settles.
C8_NoResume ==
  [][DownloadDead =>
       /\ fetchLog' = fetchLog
       /\ bodiesRead' = bodiesRead
       /\ lastNote' = lastNote
       /\ nTerminal' = nTerminal
       /\ stream'.queue = stream.queue \/ stream' = NoStream
       /\ pc = "blob"
       /\ pc' \in {"blob", "idle"}]_vars

\* The cancellation was seen at the check between two chunks, before the
\* last chunk; the call has not settled yet.
C8_Witness ==
  /\ DownloadDead
  /\ cancelObserved
  /\ thrown = "none"
  /\ bodiesRead >= 1
  /\ bodiesRead < Len(chunks)

SameCall == pc # "idle" /\ entry = "web"

MonthNotFound == "Month not found in manifest"

\* C10: downloadMonth() for a month that the loaded manifest does not hold
\* throws the month-not-found error without sending a request and without
\* touching the downloader, which stays idle (isDownloading false,
\* abortController null), so that the next downloadMonth() is not refused
\* as already in progress.
C10_AbsentMonthLeavesIdle ==
  /\ [](callError = MonthNotFound =>
          /\ ~manifest.isNull
          /\ ~isDownloading
          /\ abortController.isNull
          /\ pc = "idle")
  /\ [][(callError' = MonthNotFound /\ callError # MonthNotFound) =>
          /\ fetchLog' = fetchLog
          /\ UNCHANGED <<isDownloading, abortController, pc, stream, result, blob>>]_vars

\* The month-not-found error was thrown for a month absent from a manifest
\* that holds another month, after an earlier download on the same instance.
C10_Witness ==
  /\ entry = "web"
  /\ callError = MonthNotFound
  /\ DOMAIN manifest.months # {}
  /\ result.status = "resolved"

Busy == "Download already in progress"

\* C11: while a download is in progress on the downloader, a further
\* downloadMonth() call is refused with 'Download already in progress' and
\* changes nothing else: no request goes out, isDownloading stays true, the
\* abortController is neither replaced nor cleared, and the running download
\* keeps its position, its stream and its request log (it never restarts).
C11_BusyCallRejected ==
  [][(entry = "web" /\ isDownloading) =>
       /\ callError' \in {callError, Busy}
       /\ callError' # callError =>
             UNCHANGED <<manifest, isDownloading, abortController, loadPc, pc,
                         chunks, i, bytesDownloaded, buffer, body, stream,
                         fetchLog, bodiesRead, received, lastNote, nTerminal,
                         cancelObserved, thrown, result, blob, progressText>>
       /\ chunks' = chunks
       /\ Len(fetchLog') >= Len(fetchLog)
       /\ isDownloading' => ~abortController'.isNull]_vars

\* A call was refused as busy while a download of two chunks or more was
\* running, and that download then ran to its end and resolved.
C11_Witness ==
  /\ entry = "web"
  /\ callError = Busy
  /\ result.status = "resolved"
  /\ nTerminal = 1
  /\ Len(chunks) >= 2
  /\ blob.made

\* C12: the chunk list the CLI resolves for the target month is that month's
\* chunk list in the manifest, in the manifest's order, and every chunk file
\* the CLI requests belongs to the target month.
C12_CliChunkListIsTargetMonth ==
  (entry = "cli" /\ CHUNKS # <<>>) =>
     /\ TARGET_MONTH \in DOMAIN serverManifest.months
     /\ CHUNKS = serverManifest.months[TARGET_MONTH]
     /\ \A k \in 1..Len(CliChunkRequests) :
           CliChunkRequests[k].file.month = TARGET_MONTH

\* The CLI run got the dataset's manifest, which declares a latest month, and
\* was asked for no month or for that latest month.
CliLatestRun ==
  /\ entry = "cli"
  /\ cliPc \in {"chunk", "exit"}
  /\ MANIFEST \notin {<<>>, ErrorPageText}
  /\ serverManifest.latest_month # NoMonth
  /\ REQUESTED_MONTH \in {"", serverManifest.latest_month}

\* C13: a CLI run without a month and a CLI run with month = the manifest's
\* latest_month resolve alike: the target month is the declared latest month,
\* the chunk list is the one the manifest text yields for it, the requests
\* follow that list, and a run that exits 0 leaves <latest>.csv made of the
\* bodies received.  In the browser, a download of the latest month uses the
\* month entry getLatestMonth() returns.
C13_NoMonthIsLatestMonth ==
  /\ CliLatestRun =>
       LET latest == serverManifest.latest_month
           reqs == CliChunkRequests
       IN  /\ TARGET_MONTH = latest
           /\ CHUNKS = GrepFilenames(GrepA(MANIFEST, latest))
           /\ \A k \in 1..Len(reqs) : reqs[k] = ChunkUrl("global", CHUNKS[k])
           /\ exitCode = 0 =>
                 /\ files[latest].exists
                 /\ files[latest].content =
                       Concat([k \in 1..Len(cliReceived) |-> cliReceived[k].body])
                 /\ \A m \in Months \ {latest} : files[m] \in {NoFile, OldFile}
  /\ (entry = "web" /\ isDownloading /\ chunks # <<>>
        /\ chunks[1].month = manifest.latest_month) =>
       GetLatestMonth = [defined |-> TRUE, chunks |-> chunks]

\* A run without a month, on a manifest that holds an older month too, has
\* exited 0 with the latest month as its target.
C13_Witness ==
  /\ entry = "cli"
  /\ exitCode = 0
  /\ REQUESTED_MONTH = ""
  /\ TARGET_MONTH = "202510"
  /\ DOMAIN serverManifest.months = Months

\* C14: at every moment of loadAllManifests(), and for every order in which
\* the loads settle, manifests[id] is the manifest of dataset id when that
\* dataset's load succeeded, null when it failed, and unset while it is
\* pending, whatever happened to the other datasets; and loadAllManifests()
\* has finished exactly when every load has settled.  (Until loadManifest()
\* is called again, the downloader of a dataset holds its manifest exactly
\* when its load succeeded.)
C14_ManifestsIndependent ==
  entry = "ui" =>
    /\ \A d \in Datasets :
         /\ loadState[d] = "ok" => uiManifests[d] = ManifestAt(d)
         /\ loadState[d] = "failed" => uiManifests[d] = NullEntry
         /\ loadState[d] \notin {"ok", "failed"} => uiManifests[d] = UnsetEntry
         /\ loadCall = NoLoadCall =>
               dlManifest[d] = IF loadState[d] = "ok" THEN ManifestAt(d)
                               ELSE NullEntry
    /\ uiPc = "loaded" <=> AllSettled(loadState)

\* loadAllManifests() has finished with one load failed and the others
\* succeeded.
C14_Witness ==
  /\ entry = "ui"
  /\ uiPc = "loaded"
  /\ loadState["us"] = "failed"
  /\ loadState["global"] = "ok"
  /\ loadState["de"] = "ok"
  /\ uiManifests["de"] = ManifestAt("de")

\* C15: a CLI run started without a dataset argument prints the usage text
\* and exits with status 1 without running curl on anything.
C15_NoDatasetPrintsUsage ==
  (entry = "cli" /\ cliPc # "start" /\ argDataset = "") =>
     /\ cliPc = "exit"
     /\ exitCode = 1
     /\ printed = <<"Usage">>
     /\ cliRequests = <<>>

RECURSIVE IsSubsequence(_, _)
\* s is t with some elements left out.
IsSubsequence(s, t) ==
  IF s = <<>> THEN TRUE
  ELSE IF t = <<>> THEN FALSE
  ELSE IF Head(s) = Head(t) THEN IsSubsequence(Tail(s), Tail(t))
  ELSE IsSubsequence(s, Tail(t))

\* C16: an iterator that has consumed the dataset has yielded exactly the
\* rows with rank <= max_rank (every row when max_rank is unset), in their
\* order; and when the iterators for max_rank 1000 and 5000 have both
\* consumed the dataset, what the first yielded is a subsequence of what
\* the second yielded.
C16_RankFilterMonotone ==
  entry = "py" =>
    /\ \A m \in MaxRankArgs :
         pyPos[m] = Len(pyRows) =>
           pyOut[m] = SelectSeq(pyRows,
                                LAMBDA r : m = NoMaxRank \/ r.rank <= m)
    /\ pyPos[NoMaxRank] = Len(pyRows) => pyOut[NoMaxRank] = pyRows
    /\ (pyPos[1000] = Len(pyRows) /\ pyPos[5000] = Len(pyRows)) =>
         IsSubsequence(pyOut[1000], pyOut[5000])

\* Both filtered iterations are over, on a dataset whose rows are not sorted
\* by rank; each dropped a row, and the 5000 one kept more than the 1000 one.
C16_Witness ==
  /\ entry = "py"
  /\ Len(pyRows) = 3
  /\ pyRows[1].rank = 10000
  /\ pyRows[2].rank = 1000
  /\ pyRows[3].rank = 5000
  /\ pyPos[1000] = 3
  /\ pyPos[5000] = 3
  /\ Len(pyOut[1000]) = 1
  /\ Len(pyOut[5000]) = 2

\* A text with a newline added when it does not end with one.
Terminated(t) == IF t = <<>> \/ Last(t) = NL THEN t ELSE t \o <<NL>>

\* C17: while a chunk is being read, whatever the reads the network cut its
\* body into, the output followed by the carry-over is the output of the
\* chunks before (a function of their texts alone) followed by the text
\* received of this chunk; the output holds whole lines only and the
\* carry-over holds no newline, so a line cut by a read is emitted once, when
\* its newline or the end of the chunk is seen.  At the end each chunk has
\* contributed its text, newline-terminated.
C17_ReadSplitIndependent ==
  /\ (entry = "web" /\ pc = "read") =>
       LET k == Len(received)
       IN  /\ stream.queue \o buffer =
                Concat([j \in 1..(k - 1) |-> Terminated(received[j])])
                   \o received[k]
           /\ \A j \in 1..Len(buffer) : buffer[j] # NL
           /\ stream.queue = <<>> \/ Last(stream.queue) = NL
  /\ MergeComplete =>
       stream.queue =
          Concat([j \in 1..Len(received) |-> Terminated(received[j])])

\* A chunk made of one line of three bytes and its newline, which takes two
\* reads at least, has been merged.
C17_Witness ==
  /\ MergeComplete
  /\ received = << <<"a", "a", "a", NL>> >>
  /\ stream.queue = <<"a", "a", "a", NL>>

\* C18: the completed merge is the concatenation of the chunk bodies, with
\* one newline added at the very end when the last chunk's last line has
\* none: no other newline is inserted and no text is lost.
C18_FlushOnlyAfterLastChunk ==
  MergeComplete =>
     /\ stream.queue = Terminated(Concat(received))
     /\ SelectSeq(stream.queue, LAMBDA c : c # NL) =
           SelectSeq(Concat(received), LAMBDA c : c # NL)

C20_WebEqualsCli ==
  /\ (entry = "cli" /\ exitCode = 0) =>
       files[TARGET_MONTH] =
          [exists |-> TRUE,
           content |-> Concat([k \in 1..Len(cliReceived) |-> cliReceived[k].body])]
  /\ MergeComplete => stream.queue = Concat(received)

\* C21: in every state of a downloader, isDownloading is true exactly when
\* abortController is non-null, exactly when a downloadMonth() call is in
\* progress; a call that has settled, whatever its outcome, has reset both;
\* and a call is refused as already in progress only while another call is
\* in progress.
C21_FlagsFollowTheCall ==
  /\ [](entry = "web" =>
          /\ isDownloading <=> ~abortController.isNull
          /\ isDownloading <=> pc # "idle"
          /\ isDownloading <=> result.status = "pending"
          /\ Settled => ~isDownloading /\ abortController = NullController)
  /\ [][(callError' = Busy /\ callError # Busy) =>
          pc # "idle" /\ result.status = "pending"]_vars

\* A download that saw its cancellation has settled rejected, and the flags
\* are reset.
C21_Witness ==
  /\ Settled
  /\ result = [status |-> "rejected", error |-> "AbortError"]
  /\ cancelObserved
  /\ ~isDownloading
  /\ abortController.isNull

\* C22: no step taken on an idle downloader that leaves it idle, a
\* cancelDownload() among them, changes the flags, the controller, the
\* request log, the stream, the result or the file handed over; an idle
\* downloader holds no abort signal, aborted or not; and every download that
\* starts passes the abort check of its first chunk with a signal that is not
\* aborted: it has not seen a cancellation and announces chunk 1.
C22_CancelTouchesOnlyRunningCall ==
  /\ [](entry = "web" /\ pc = "idle" => abortController = NullController)
  /\ [][(entry = "web" /\ pc = "idle" /\ pc' = "idle") =>
          UNCHANGED <<isDownloading, abortController, chunks, i,
                      bytesDownloaded, buffer, body, stream, fetchLog,
                      bodiesRead, received, lastNote, nTerminal,
                      cancelObserved, thrown, result, blob, progressText>>]_vars
  /\ [][(entry = "web" /\ pc = "idle" /\ pc' # "idle") =>
          /\ pc' = "fetch"
          /\ ~cancelObserved'
          /\ lastNote' = [type |-> "chunk", chunkIndex |-> 0, bytesDownloaded |-> 0]
          /\ ~abortController'.isNull
          /\ ~abortController'.aborted => Len(fetchLog') = 1]_vars

\* A download cancelled between two chunks has settled: the downloader is
\* idle again, holds no signal, and can be cancelled or started from there.
C22_Witness ==
  /\ Settled
  /\ cancelObserved
  /\ thrown = "none"
  /\ bodiesRead >= 1
  /\ pc = "idle"
  /\ abortController = NullController

\* The latest loadManifest(dataset) call was for the downloader's own dataset.
OwnDataset(c) == c.arg = "" \/ c.arg = c.on

\* C23: a loadManifest(dataset) call that resolves returns the manifest of
\* the dataset it was asked for and, when that is the downloader's own
\* dataset (no argument, or its own id), has set this.manifest to it; a call
\* for another dataset leaves this.manifest as it was, and so does a call
\* that rejects or is still pending; no call touches another downloader's
\* manifest or the controller's manifests.
C23_LoadReplacesOwnManifestOnly ==
  /\ [](entry = "ui" /\ loadCall.state = "resolved" =>
          /\ loadCall.value = ManifestAt(TargetDataset(loadCall.on, loadCall.arg))
          /\ OwnDataset(loadCall) => dlManifest[loadCall.on] = loadCall.value)
  /\ [][(entry = "ui" /\ loadCall' # loadCall) =>
          /\ \A d \in Datasets \ {loadCall'.on} : dlManifest'[d] = dlManifest[d]
          /\ ~(loadCall'.state = "resolved" /\ OwnDataset(loadCall')) =>
                dlManifest' = dlManifest
          /\ uiManifests' = uiManifests]_vars

\* The downloader of global, whose own manifest is loaded, was asked for the
\* manifest of us and returned it.
C23_Witness ==
  /\ entry = "ui"
  /\ loadCall = [on |-> "global", arg |-> "us", state |-> "resolved",
                 value |-> ManifestAt("us")]
  /\ dlManifest["global"] = ManifestAt("global")

\* C24: after a CLI run that exits 0, whatever <YYYYMM>.csv held before the
\* run, the output file holds the bodies of the target month's chunks, each
\* fetched once with success in this run, concatenated in manifest order,
\* and nothing else.
C24_OutputIsThisRunsChunks ==
  (entry = "cli" /\ exitCode = 0) =>
     /\ TARGET_MONTH \in DOMAIN serverManifest.months
     /\ [k \in 1..Len(cliReceived) |-> cliReceived[k].file] =
           serverManifest.months[TARGET_MONTH]
     /\ \A k \in 1..Len(cliReceived) : cliReceived[k].status = "200"
     /\ files[TARGET_MONTH].exists
     /\ files[TARGET_MONTH].content =
           Concat([k \in 1..Len(cliReceived) |-> cliReceived[k].body])

\* The month arguments tried that are six decimal digits.
SixDigitArgs == {"202509", "202510", "202511"}

\* C25: a CLI run given a month argument that is not six decimal digits ends
\* with the format error and status 1; curl was run on nothing (no manifest,
\* no chunk) and the working directory is as the run found it.
C25_BadMonthRejectedEarly ==
  (entry = "cli" /\ cliPc # "start" /\ REQUESTED_MONTH \notin SixDigitArgs \cup {""}) =>
     /\ cliPc = "exit"
     /\ exitCode = 1
     /\ printed = <<"Error: Month must be in YYYYMM format">>
     /\ cliRequests = <<>>
     /\ MANIFEST = <<>>
     /\ CHUNKS = <<>>
     /\ files \in InitialFiles

\* The run was given the month 2025-10 in a directory that holds older
\* output files, and has exited.
C25_Witness ==
  /\ entry = "cli"
  /\ cliPc = "exit"
  /\ REQUESTED_MONTH = "2025-10"
  /\ exitCode = 1
  /\ files = [m \in Months |-> OldFile]

====
